---- MODULE Spec2Model ----
(***************************************************************************)
(* Model of eaarl/analyze.py: the threshold filter remove_failed_thresh,   *)
(* the channel selector select_eaarla_channel with its saturation test,    *)
(* and the waveform centroid.                                              *)
(*                                                                         *)
(* Every function of the module is a pure transformation, so each one is   *)
(* checked under a specification whose initial states enumerate the        *)
(* arguments of one call (pc = "call") and whose single action performs    *)
(* the call and records its outcome in `out` (pc = "done").                *)
(*                                                                         *)
(* A frame (pandas.DataFrame) is a sequence of records; the field idx is   *)
(* the row's index label, which boolean-mask selection carries along.      *)
(* A waveform (numpy array) is a sequence of integers.  Python's 0-based   *)
(* position p is position p+1 here.                                        *)
(* An outcome is [exc, val]: exc = NoExc and the returned value, or the    *)
(* exception raised and val = <<>>.                                        *)
(* The samples are Python integers (np.array of them is int64), so the     *)
(* subtraction of the background never wraps.  The quotient computed by    *)
(* centroid is kept as an exact fraction [num, den] in lowest terms with   *)
(* den > 0; the float division rounds it, which no comparison with an      *)
(* integer made here can see.                                              *)
(***************************************************************************)
EXTENDS Integers, Sequences, FiniteSets, TLC

VARIABLES pc, fn, in_frame, in_rx, in_tx, in_max_saturated, in_max_samples,
          in_saturation_value, in_wf, in_limit, out

vars == <<pc, fn, in_frame, in_rx, in_tx, in_max_saturated, in_max_samples,
          in_saturation_value, in_wf, in_limit, out>>

(***************************************************************************)
(* Bounds of the model.                                                    *)
(***************************************************************************)
\* longest waveform handed to centroid
MaxLen == 4
\* longest waveform handed to the saturation test on its own
MaxSatLen == 4
\* largest max_samples / max_saturated tried by the saturation test
MaxParam == 3
\* longest frame handed to remove_failed_thresh
MaxThreshLen == 3
\* longest frame of arbitrary rows handed to select_eaarla_channel
MaxArbLen == 3
\* most triplets in a sorted frame handed to select_eaarla_channel
MaxTriplets == 2

(***************************************************************************)
(* Python values.                                                          *)
(***************************************************************************)
\* limit=None is the empty tuple, limit=n is <<n>>
None == <<>>

NoExc == "none"
NotSorted == "ValueError: frame is not sorted properly"
BroadcastError == "ValueError: could not broadcast"
IndexError == "IndexError: index 0 is out of bounds"

Return(v) == [exc |-> NoExc, val |-> v]
Raise(e) == [exc |-> e, val |-> <<>>]

Min(a, b) == IF a <= b THEN a ELSE b
Abs(a) == IF a < 0 THEN 0 - a ELSE a

RECURSIVE Gcd(_, _)
Gcd(a, b) == IF b = 0 THEN a ELSE Gcd(b, a % b)

\* the real number n/d (d # 0) as a fraction in lowest terms, den > 0
Frac(n, d) ==
    LET g == Gcd(Abs(n), Abs(d))
        s == IF d < 0 THEN 0 - 1 ELSE 1
    IN [num |-> (s * n) \div g, den |-> (s * d) \div g]

\* the integer k as a fraction
IntFrac(k) == [num |-> k, den |-> 1]

\* a[:n] for n >= 0
Prefix(a, n) == SubSeq(a, 1, Min(n, Len(a)))

\* ndarray.sum()
RECURSIVE sum(_)
sum(a) == IF Len(a) = 0 THEN 0 ELSE a[1] + sum(Tail(a))

(***************************************************************************)
(* remove_failed_thresh (analyze.py 21-40)                                 *)
(***************************************************************************)
\* frame[mask]: the rows whose mask entry is True, in frame order
boolean_mask(frame, mask) ==
    LET RECURSIVE pick(_)
        pick(i) == IF i > Len(frame) THEN <<>>
                   ELSE IF mask[i] THEN <<frame[i]>> \o pick(i + 1)
                   ELSE pick(i + 1)
    IN pick(1)

remove_failed_thresh_tx_on_input(frame, rx, tx) ==
    LET f1 == IF rx THEN boolean_mask(frame, [i \in 1..Len(frame) |-> frame[i].thresh_rx = 0])
              ELSE frame
    IN Return(IF tx THEN boolean_mask(frame, [i \in 1..Len(frame) |-> frame[i].thresh_tx = 0])
              ELSE f1)

remove_failed_thresh(frame, rx, tx) ==
    LET f1 == IF rx THEN boolean_mask(frame, [i \in 1..Len(frame) |-> frame[i].thresh_rx = 0])
              ELSE frame
        f2 == IF tx THEN boolean_mask(f1, [i \in 1..Len(f1) |-> f1[i].thresh_tx = 0])
              ELSE f1
    IN Return(f2)

(***************************************************************************)
(* select_eaarla_channel (analyze.py 42-97)                                *)
(***************************************************************************)
\* defaults of the keyword arguments
DefaultMaxSaturated == 5
DefaultMaxSamples == 12
DefaultSaturationValue == 250

keep_channel4(frame) == frame

\* frame[frame.channel != 4]
drop_channel4(frame) ==
    boolean_mask(frame, [i \in 1..Len(frame) |-> frame[i].channel # 4])

\* the 1-based positions of a[start::3] in an array of length n
stride_positions(n, start) == {i \in 1..n : (i - 1) >= start /\ (i - 1 - start) % 3 = 0}

\* a[start::3]
stride(a, start) ==
    LET RECURSIVE pick(_)
        pick(i) == IF i > Len(a) THEN <<>> ELSE <<a[i]>> \o pick(i + 3)
    IN pick(start + 1)

\* np.all(a == v)
all_equal(a, v) == \A i \in 1..Len(a) : a[i] = v

channel_check_first_only(frame) ==
    LET channel == [i \in 1..Len(frame) |-> frame[i].channel]
    IN all_equal(stride(channel, 0), 1)

\* the three tests on frame.channel[k::3]
channel_check(frame) ==
    LET channel == [i \in 1..Len(frame) |-> frame[i].channel]
    IN /\ all_equal(stride(channel, 0), 1)
       /\ all_equal(stride(channel, 1), 2)
       /\ all_equal(stride(channel, 2), 3)

raster_check_strict(frame) ==
    \A i \in 2..Len(frame) : frame[i].raster_number > frame[i - 1].raster_number

\* np.all(raster_number.values[1:] >= raster_number.values[:-1])
raster_check(frame) ==
    \A i \in 2..Len(frame) : frame[i].raster_number >= frame[i - 1].raster_number

check_saturation_strict(rx, max_samples, saturation_value, max_saturated) ==
    LET head == Prefix(rx, max_samples)
        flags == [i \in 1..Len(head) |-> IF head[i] > saturation_value THEN 1 ELSE 0]
    IN sum(flags) >= max_saturated

\* lambda rx: (rx[:max_samples] >= saturation_value).sum() >= max_saturated
check_saturation(rx, max_samples, saturation_value, max_saturated) ==
    LET head == Prefix(rx, max_samples)
        flags == [i \in 1..Len(head) |-> IF head[i] >= saturation_value THEN 1 ELSE 0]
    IN sum(flags) >= max_saturated

\* np.logical_not
logical_not(a) == [i \in 1..Len(a) |-> ~a[i]]

\* numpy broadcasting of two 1-d shapes
broadcastable(m, n) == m = n \/ m = 1 \/ n = 1
broadcast_len(m, n) == IF m = 1 THEN n ELSE m
at(a, i) == IF Len(a) = 1 THEN a[1] ELSE a[i]

\* np.logical_and of two 1-d arrays whose shapes broadcast
logical_and(a, b) ==
    [i \in 1..broadcast_len(Len(a), Len(b)) |-> at(a, i) /\ at(b, i)]

\* a[start::3] = v, for a value whose shape fits the slice
assign_stride(a, start, v) ==
    LET pos == stride_positions(Len(a), start)
    IN [i \in 1..Len(a) |->
          IF i \in pos THEN at(v, ((i - 1 - start) \div 3) + 1) ELSE a[i]]

\* can a value of length m be stored in a slice of length n
fits(m, n) == m = n \/ m = 1

third_needs_unsaturated(keep) ==
    logical_and(logical_and(logical_not(stride(keep, 0)), logical_not(stride(keep, 1))),
                stride(keep, 2))

\* logical_and(logical_not(keep[0::3]), logical_not(keep[1::3])), the value
\* stored in keep[2::3]; keep[1::3] was stored before
third_channel(keep) ==
    logical_and(logical_not(stride(keep, 0)), logical_not(stride(keep, 1)))

\* logical_and(logical_not(keep[0::3]), keep[1::3]), the value stored in keep[1::3]
second_channel(keep) ==
    logical_and(logical_not(stride(keep, 0)), stride(keep, 1))

\* lines 93-95: the mask of kept rows, or the error numpy raises when the
\* slices of an incomplete last triplet do not fit
keep_mask(saturated) ==
    LET keep0 == logical_not(saturated)
        n == Len(keep0)
        n0 == Cardinality(stride_positions(n, 0))
        n1 == Cardinality(stride_positions(n, 1))
        n2 == Cardinality(stride_positions(n, 2))
    IN IF ~broadcastable(n0, n1) \/ ~fits(broadcast_len(n0, n1), n1)
       THEN Raise(BroadcastError)
       ELSE LET keep1 == assign_stride(keep0, 1, second_channel(keep0))
            IN IF ~broadcastable(n0, n1) \/ ~fits(broadcast_len(n0, n1), n2)
               THEN Raise(BroadcastError)
               ELSE Return(assign_stride(keep1, 2, third_channel(keep1)))

select_eaarla_channel(frame, max_saturated, max_samples, saturation_value) ==
    LET f == drop_channel4(frame)
    IN IF ~channel_check(f) \/ ~raster_check(f) THEN Raise(NotSorted)
       ELSE LET saturated == [i \in 1..Len(f) |->
                    check_saturation(f[i].rx, max_samples, saturation_value, max_saturated)]
                keep == keep_mask(saturated)
            IN IF keep.exc # NoExc THEN keep
               ELSE Return(boolean_mask(f, keep.val))

(***************************************************************************)
(* centroid (analyze.py 147-179)                                           *)
(***************************************************************************)
\* `if limit:` is false for None and for 0
Truthy(limit) == limit # None /\ limit[1] # 0

\* wf = wf[:limit] when limit is truthy
truncate(wf, limit) == IF Truthy(limit) THEN Prefix(wf, limit[1]) ELSE wf

\* wf - wf[0]
remove_background(wf) == [i \in 1..Len(wf) |-> wf[i] - wf[1]]

weighted_idx_from_zero(wf) == [i \in 1..Len(wf) |-> wf[i] * (i - 1)]

\* wf * np.arange(1, len(wf) + 1)
weighted_idx(wf) == [i \in 1..Len(wf) |-> wf[i] * i]

centroid_value_no_shift(weighted_sum, sum_power) == Frac(weighted_sum, sum_power)

\* weighted_sum / sum_power - 1
centroid_value(weighted_sum, sum_power) ==
    Frac(weighted_sum - sum_power, sum_power)

centroid(wf, limit) ==
    IF Len(wf) = 0 THEN Return(IntFrac(0 - 1))
    ELSE LET w1 == truncate(wf, limit)
         IN IF Len(w1) = 0 THEN Raise(IndexError)
            ELSE LET w2 == remove_background(w1)
                     sum_power == sum(w2)
                 IN IF sum_power = 0 THEN Return(IntFrac(0 - 1))
                    ELSE Return(centroid_value(sum(weighted_idx(w2)), sum_power))

(***************************************************************************)
(* Calls of remove_failed_thresh.                                          *)
(***************************************************************************)
\* 0 = passed, nonzero = failed
ThreshFlags == {0, 1, 2}

\* the rows get the index labels 0, 1, ... in frame order
with_index(rows) == [i \in 1..Len(rows) |-> [idx |-> i - 1] @@ rows[i]]

ThreshFrames ==
    {with_index(rows) :
        rows \in UNION {[1..n -> [thresh_rx : ThreshFlags, thresh_tx : ThreshFlags]] :
                            n \in 0..MaxThreshLen}}

InitThresh ==
    /\ pc = "call"
    /\ fn = "remove_failed_thresh"
    /\ out = Return(<<>>)
    /\ in_frame \in ThreshFrames
    /\ in_rx \in BOOLEAN
    /\ in_tx \in BOOLEAN
    /\ in_max_saturated = 0
    /\ in_max_samples = 0
    /\ in_saturation_value = 0
    /\ in_wf = <<>>
    /\ in_limit = None

CallRemoveFailedThresh ==
    /\ pc = "call"
    /\ fn = "remove_failed_thresh"
    /\ out' = remove_failed_thresh(in_frame, in_rx, in_tx)
    /\ pc' = "done"
    /\ UNCHANGED <<fn, in_frame, in_rx, in_tx, in_max_saturated, in_max_samples,
                   in_saturation_value, in_wf, in_limit>>

SpecThresh == InitThresh /\ [][CallRemoveFailedThresh]_vars

(***************************************************************************)
(* Calls of the saturation test on one waveform.                           *)
(***************************************************************************)
SatSamples == {0, 1, 2}

SatWaveforms == UNION {[1..n -> SatSamples] : n \in 0..MaxSatLen}

InitSaturation ==
    /\ pc = "call"
    /\ fn = "check_saturation"
    /\ out = Return(<<>>)
    /\ in_frame = <<>>
    /\ in_rx = TRUE
    /\ in_tx = TRUE
    /\ in_max_saturated \in 0..MaxParam
    /\ in_max_samples \in 0..MaxParam
    /\ in_saturation_value \in {1, 2}
    /\ in_wf \in SatWaveforms
    /\ in_limit = None

CallCheckSaturation ==
    /\ pc = "call"
    /\ fn = "check_saturation"
    /\ out' = Return(check_saturation(in_wf, in_max_samples, in_saturation_value,
                                      in_max_saturated))
    /\ pc' = "done"
    /\ UNCHANGED <<fn, in_frame, in_rx, in_tx, in_max_saturated, in_max_samples,
                   in_saturation_value, in_wf, in_limit>>

SpecSaturation == InitSaturation /\ [][CallCheckSaturation]_vars

(***************************************************************************)
(* Calls of select_eaarla_channel, with the default keyword arguments.     *)
(***************************************************************************)
\* five saturated samples among the first twelve
RxSaturated == <<250, 255, 250, 250, 0, 250, 0, 0, 0, 0, 0, 0>>
\* four saturated samples among the first twelve and one after them
RxUnsaturated == <<250, 255, 250, 249, 0, 250, 0, 0, 0, 0, 0, 0, 250>>

RxChoices == {RxSaturated, RxUnsaturated}
Rasters == {0, 1}

\* frames of any rows, sorted or not
ArbitraryFrames ==
    {with_index(rows) :
        rows \in UNION {[1..n -> [channel : 1..4, raster_number : Rasters, rx : RxChoices]] :
                            n \in 0..MaxArbLen}}

\* the rows of one pulse: channels 1, 2, 3 of one raster, and where noise is
\* "after" or "inside", a channel-4 row of raster noise_raster
pulse_rows(raster, rx1, rx2, rx3, noise, noise_raster) ==
    LET row(c, w) == [channel |-> c, raster_number |-> raster, rx |-> w]
        n == <<[channel |-> 4, raster_number |-> noise_raster, rx |-> RxSaturated]>>
    IN IF noise = "after" THEN <<row(1, rx1), row(2, rx2), row(3, rx3)>> \o n
       ELSE IF noise = "inside" THEN <<row(1, rx1)>> \o n \o <<row(2, rx2), row(3, rx3)>>
       ELSE <<row(1, rx1), row(2, rx2), row(3, rx3)>>

Pulses ==
    {pulse_rows(r, w[1], w[2], w[3], "none", r) : r \in Rasters, w \in [1..3 -> RxChoices]}
    \cup {pulse_rows(r, w[1], w[2], w[3], "after", nr) :
             r \in Rasters, w \in [1..3 -> RxChoices], nr \in Rasters}
    \cup {pulse_rows(r, w[1], w[2], w[3], "inside", r) :
             r \in Rasters, w \in [1..3 -> RxChoices]}

RECURSIVE flatten(_)
flatten(ps) == IF Len(ps) = 0 THEN <<>> ELSE ps[1] \o flatten(Tail(ps))

\* frames of whole pulses in raster order, with channel-4 rows interleaved
SortedFrames ==
    {with_index(flatten(ps)) :
        ps \in {q \in UNION {[1..k -> Pulses] : k \in 0..MaxTriplets} :
                   \A i \in 2..Len(q) : q[i][1].raster_number >= q[i - 1][1].raster_number
               }}

InitSelect ==
    /\ pc = "call"
    /\ fn = "select_eaarla_channel"
    /\ out = Return(<<>>)
    /\ in_frame \in ArbitraryFrames \cup SortedFrames
    /\ in_rx = TRUE
    /\ in_tx = TRUE
    /\ in_max_saturated = DefaultMaxSaturated
    /\ in_max_samples = DefaultMaxSamples
    /\ in_saturation_value = DefaultSaturationValue
    /\ in_wf = <<>>
    /\ in_limit = None

CallSelectEaarlaChannel ==
    /\ pc = "call"
    /\ fn = "select_eaarla_channel"
    /\ out' = select_eaarla_channel(in_frame, in_max_saturated, in_max_samples,
                                    in_saturation_value)
    /\ pc' = "done"
    /\ UNCHANGED <<fn, in_frame, in_rx, in_tx, in_max_saturated, in_max_samples,
                   in_saturation_value, in_wf, in_limit>>

SpecSelect == InitSelect /\ [][CallSelectEaarlaChannel]_vars

(***************************************************************************)
(* Calls of centroid.                                                      *)
(***************************************************************************)
Samples == {0, 1, 5, 10}

Waveforms == UNION {[1..n -> Samples] : n \in 0..MaxLen}

\* limit is None or a sample count (0 included)
Limits == {None} \cup {<<n>> : n \in 0..(MaxLen + 1)}

InitCentroid ==
    /\ pc = "call"
    /\ fn = "centroid"
    /\ out = Return(<<>>)
    /\ in_frame = <<>>
    /\ in_rx = TRUE
    /\ in_tx = TRUE
    /\ in_max_saturated = 0
    /\ in_max_samples = 0
    /\ in_saturation_value = 0
    /\ in_wf \in Waveforms
    /\ in_limit \in Limits

CallCentroid ==
    /\ pc = "call"
    /\ fn = "centroid"
    /\ out' = centroid(in_wf, in_limit)
    /\ pc' = "done"
    /\ UNCHANGED <<fn, in_frame, in_rx, in_tx, in_max_saturated, in_max_samples,
                   in_saturation_value, in_wf, in_limit>>

SpecCentroid == InitCentroid /\ [][CallCentroid]_vars

(***************************************************************************)
(* Vocabulary of the properties.                                           *)
(***************************************************************************)
Done(f) == pc = "done" /\ fn = f

Range(s) == {s[i] : i \in 1..Len(s)}

\* the rows of a frame that are not channel 4, in frame order
NonNoise(frame) == SelectSeq(frame, LAMBDA r : r.channel # 4)

\* whole triplets of channels 1, 2, 3 in that order, rasters non-decreasing
TripletSorted(f) ==
    /\ Len(f) % 3 = 0
    /\ \A i \in 1..Len(f) : f[i].channel = ((i - 1) % 3) + 1
    /\ \A i \in 2..Len(f) : f[i].raster_number >= f[i - 1].raster_number

\* number of samples >= saturation_value among the first max_samples of w
SaturatedCount(w, max_samples, saturation_value) ==
    Cardinality({i \in 1..Len(w) : i <= max_samples /\ w[i] >= saturation_value})

IsSaturated(w) ==
    SaturatedCount(w, in_max_samples, in_saturation_value) >= in_max_saturated

\* the samples a call centroid(wf, limit) is to consider: the first limit
\* samples when a limit is given, else all
Considered(wf, limit) == IF limit = None THEN wf ELSE Prefix(wf, limit[1])

RECURSIVE SumOver(_, _, _)
\* the sum of (weight i) * (c[i] - c[1]) over positions i..Len(c); weighted is
\* TRUE for the 1-based position weights, FALSE for weight 1
SumOver(c, i, weighted) ==
    IF i > Len(c) THEN 0
    ELSE (IF weighted THEN i ELSE 1) * (c[i] - c[1]) + SumOver(c, i + 1, weighted)

TotalEnergy(c) == SumOver(c, 1, FALSE)
WeightedSum(c) == SumOver(c, 1, TRUE)

MinusOne == [num |-> 0 - 1, den |-> 1]

\* comparisons of a fraction with an integer
FracGE(v, k) == v.num >= k * v.den
FracLE(v, k) == v.num <= k * v.den
FracLT(v, k) == v.num < k * v.den

NoSampleBelowFirst(c) == \A i \in 1..Len(c) : c[i] >= c[1]
SomeSampleAboveFirst(c) == \E i \in 1..Len(c) : c[i] > c[1]

(***************************************************************************)
(* Channel selector.                                                       *)
(***************************************************************************)
\* C1: on a frame that satisfies the triplet/sort precondition, the record
\* retained of every triplet is channel 1 if its rx is not saturated, else
\* channel 2 if its rx is not saturated, else channel 3 whatever its rx.
C1_FirstUnsaturatedChannel ==
    LET f == NonNoise(in_frame)
    IN (Done("select_eaarla_channel") /\ TripletSorted(f)) =>
          /\ out.exc = NoExc
          /\ \A t \in 0..((Len(f) \div 3) - 1) :
                LET r1 == f[3 * t + 1]
                    r2 == f[3 * t + 2]
                    r3 == f[3 * t + 3]
                    chosen == IF ~IsSaturated(r1.rx) THEN r1
                              ELSE IF ~IsSaturated(r2.rx) THEN r2
                              ELSE r3
                IN {r1, r2, r3} \cap Range(out.val) = {chosen}

\* two triplets; in one all three channels are saturated and channel 3 is
\* retained, in the other channel 1 is saturated and channel 2 is retained
C1_Witness ==
    LET f == NonNoise(in_frame)
    IN /\ Done("select_eaarla_channel")
       /\ TripletSorted(f)
       /\ Len(f) = 6
       /\ IsSaturated(f[1].rx) /\ IsSaturated(f[2].rx) /\ IsSaturated(f[3].rx)
       /\ IsSaturated(f[4].rx) /\ ~IsSaturated(f[5].rx)
       /\ out.exc = NoExc
       /\ out.val = <<f[3], f[5]>>

\* C2: on a frame that satisfies the precondition and holds k triplets, the
\* output holds exactly k records, exactly one of each triplet, and no
\* channel-4 record.
C2_OnePerTriplet ==
    LET f == NonNoise(in_frame)
    IN (Done("select_eaarla_channel") /\ TripletSorted(f)) =>
          /\ out.exc = NoExc
          /\ Len(out.val) = Len(f) \div 3
          /\ \A t \in 0..((Len(f) \div 3) - 1) :
                Cardinality({i \in 1..Len(out.val) :
                    out.val[i] \in {f[3 * t + 1], f[3 * t + 2], f[3 * t + 3]}}) = 1
          /\ \A i \in 1..Len(out.val) :
                out.val[i].channel # 4 /\ out.val[i] \in Range(in_frame)

\* two triplets with two channel-4 rows among them, two records returned
C2_Witness ==
    LET f == NonNoise(in_frame)
    IN /\ Done("select_eaarla_channel")
       /\ TripletSorted(f)
       /\ Len(f) = 6
       /\ Len(in_frame) = 8
       /\ out.exc = NoExc
       /\ Len(out.val) = 2

\* C5: when, after the channel-4 rows are dropped, some record at 0-based
\* position i has a channel other than (i mod 3)+1, or some record has a
\* smaller raster_number than the record before it, the call raises
\* 'frame is not sorted properly' and returns nothing.
C5_RaisesOnMisorder ==
    LET f == NonNoise(in_frame)
    IN (/\ Done("select_eaarla_channel")
        /\ \/ \E i \in 1..Len(f) : f[i].channel # ((i - 1) % 3) + 1
           \/ \E i \in 2..Len(f) : f[i].raster_number < f[i - 1].raster_number) =>
          out = Raise(NotSorted)

\* a triplet in channel order 1, 3, 2 of one raster was rejected
C5_Witness ==
    LET f == NonNoise(in_frame)
    IN /\ Done("select_eaarla_channel")
       /\ Len(f) = 3
       /\ <<f[1].channel, f[2].channel, f[3].channel>> = <<1, 3, 2>>
       /\ f[1].raster_number = f[2].raster_number
       /\ f[2].raster_number = f[3].raster_number
       /\ out = Raise(NotSorted)

\* C6: on whole triplets in channel order 1, 2, 3 with non-decreasing raster
\* numbers (channel-4 rows interleaved or not, the empty frame included) the
\* call raises no error and returns a result.
C6_NoFalsePositive ==
    (Done("select_eaarla_channel") /\ TripletSorted(NonNoise(in_frame))) =>
        out.exc = NoExc

\* two triplets of the same raster with a channel-4 row among them were accepted
C6_Witness ==
    LET f == NonNoise(in_frame)
    IN /\ Done("select_eaarla_channel")
       /\ TripletSorted(f)
       /\ Len(f) = 6
       /\ Len(in_frame) > 6
       /\ f[1].raster_number = f[6].raster_number
       /\ out.exc = NoExc

(***************************************************************************)
(* Threshold filter.                                                       *)
(***************************************************************************)
\* C7: remove_failed_thresh(frame, rx, tx) returns exactly the records r of
\* frame with (not rx or r.thresh_rx = 0) and (not tx or r.thresh_tx = 0),
\* unchanged and in their original relative order.
C7_ThreshFilter ==
    Done("remove_failed_thresh") =>
        /\ out.exc = NoExc
        /\ Range(out.val) =
              {r \in Range(in_frame) :
                  (~in_rx \/ r.thresh_rx = 0) /\ (~in_tx \/ r.thresh_tx = 0)}
        /\ \A i, j \in 1..Len(out.val) : i < j => out.val[i].idx < out.val[j].idx

\* rx=False, tx=True: a record that failed thresh_rx was kept, after another
\* kept record, and a record that failed thresh_tx was dropped
C7_Witness ==
    /\ Done("remove_failed_thresh")
    /\ ~in_rx /\ in_tx
    /\ Len(out.val) = 2
    /\ Len(in_frame) = 3
    /\ out.val[2].thresh_rx # 0
    /\ out.val[2].thresh_tx = 0

C4_DegenerateSentinel ==
    Done("centroid") =>
        /\ out.exc = NoExc
        /\ Len(in_wf) = 0 => out.val = MinusOne
        /\ (Len(in_wf) > 0 /\ TotalEnergy(Considered(in_wf, in_limit)) = 0) =>
              out.val = MinusOne

\* C9: for a non-empty waveform and any limit, with c the considered samples,
\* T the sum of (c[i] - c[0]) and W the sum of (i+1)*(c[i] - c[0]): when
\* T # 0 the result is W/T - 1; centroid(w, L) equals centroid(w[:L]) with no
\* limit; and centroid([0,10,0]) with no limit is 1.
C9_WeightedCentroid ==
    (Done("centroid") /\ Len(in_wf) > 0) =>
        LET c == Considered(in_wf, in_limit)
            T == TotalEnergy(c)
            W == WeightedSum(c)
        IN /\ T # 0 => out = Return(Frac(W - T, T))
           /\ in_limit # None => out = centroid(Prefix(in_wf, in_limit[1]), None)
           /\ (in_wf = <<0, 10, 0>> /\ in_limit = None) => out = Return(IntFrac(1))

\* C10: when no considered sample is below the first sample and one is above
\* it, centroid returns a value v with 1 <= v <= n-1, n the number of
\* considered samples.
C10_OffsetAtLeastOne ==
    LET c == Considered(in_wf, in_limit)
    IN (Done("centroid") /\ NoSampleBelowFirst(c) /\ SomeSampleAboveFirst(c)) =>
          /\ out.exc = NoExc
          /\ out.val # MinusOne
          /\ FracGE(out.val, 1)
          /\ FracLE(out.val, Len(c) - 1)

\* a limit that cuts the waveform, all the energy in the second of the
\* considered samples, which is not the last: the result is exactly 1
C10_Witness ==
    LET c == Considered(in_wf, in_limit)
    IN /\ Done("centroid")
       /\ in_limit # None
       /\ Len(c) >= 3
       /\ Len(c) < Len(in_wf)
       /\ NoSampleBelowFirst(c) /\ SomeSampleAboveFirst(c)
       /\ out = Return(IntFrac(1))

====
